---------------------------- MODULE Spec2Model ----------------------------
(***************************************************************************)
(* Leak Detection Result Pipeline of backend/utils/gemini.js:              *)
(* analyzeWithGemini (input check, credential check, pressure context,     *)
(* one axios.post, response interpretation, confidence filter) and         *)
(* drawLeakAnnotations (SVG overlay geometry, composite, fallback).        *)
(*                                                                         *)
(* One invocation is modelled.  Each action is the code that runs between  *)
(* two suspension points (await) of the async functions.                   *)
(***************************************************************************)
EXTENDS Integers, Sequences, FiniteSets, TLC

VARIABLES
    imageBuffer,          \* argument imageBuffer
    end1Pressure,         \* argument end1Pressure
    end2Pressure,         \* argument end2Pressure
    GEMINI_API_KEY,       \* process.env.GEMINI_API_KEY
    pc,                   \* position of the invocation
    exit,                 \* the return/throw statement the invocation left by
    base64Image,          \* local base64Image
    pressureContext,      \* local pressureContext
    calls,                \* number of axios.post requests issued
    response,             \* what the awaited axios.post settled with
    leakData,             \* local leakData (result of JSON.parse)
    highConfidenceLeaks,  \* local highConfidenceLeaks
    drawCalls,            \* number of drawLeakAnnotations invocations
    drawArg,              \* the leaks array handed to drawLeakAnnotations
    metadata,             \* local metadata of drawLeakAnnotations
    svgOverlay,           \* svgElements built by drawLeakAnnotations
    drawExit,             \* the return statement drawLeakAnnotations left by
    annotatedImage,       \* buffer returned by drawLeakAnnotations
    result                \* the string analyzeWithGemini resolves with

vars == <<imageBuffer, end1Pressure, end2Pressure, GEMINI_API_KEY, pc, exit,
          base64Image, pressureContext, calls, response, leakData,
          highConfidenceLeaks, drawCalls, drawArg, metadata, svgOverlay,
          drawExit, annotatedImage, result>>

(***************************************************************************)
(* Bounds of the model.                                                    *)
(***************************************************************************)
MaxLeaks == 2

(***************************************************************************)
(* Buffers.  A Buffer argument is either missing (null/undefined) or a     *)
(* sequence of bytes.                                                      *)
(***************************************************************************)
NoBuffer == [isNull |-> TRUE, bytes |-> <<>>]

Buffer(bs) == [isNull |-> FALSE, bytes |-> bs]

\* if (!imageBuffer || imageBuffer.length === 0)
\* variant that forgets the length test
IsMissingOrEmptyMut(buf) == buf.isNull

IsMissingOrEmpty(buf) == buf.isNull \/ Len(buf.bytes) = 0

(***************************************************************************)
(* Buffer.prototype.toString("base64"): RFC 4648 base64 with padding.      *)
(***************************************************************************)
Base64Alphabet ==
    << "A","B","C","D","E","F","G","H","I","J","K","L","M","N","O","P",
       "Q","R","S","T","U","V","W","X","Y","Z","a","b","c","d","e","f",
       "g","h","i","j","k","l","m","n","o","p","q","r","s","t","u","v",
       "w","x","y","z","0","1","2","3","4","5","6","7","8","9","+","/" >>

Base64Char(n) == Base64Alphabet[n + 1]

RECURSIVE Base64Encode(_)
Base64Encode(bs) ==
    IF Len(bs) = 0 THEN <<>>
    ELSE IF Len(bs) = 1 THEN
        << Base64Char(bs[1] \div 4), Base64Char((bs[1] % 4) * 16), "=", "=" >>
    ELSE IF Len(bs) = 2 THEN
        << Base64Char(bs[1] \div 4),
           Base64Char((bs[1] % 4) * 16 + bs[2] \div 16),
           Base64Char((bs[2] % 16) * 4), "=" >>
    ELSE
        << Base64Char(bs[1] \div 4),
           Base64Char((bs[1] % 4) * 16 + bs[2] \div 16),
           Base64Char((bs[2] % 16) * 4 + bs[3] \div 64),
           Base64Char(bs[3] % 64) >>
        \o Base64Encode(SubSeq(bs, 4, Len(bs)))

ToBase64(buf) == Base64Encode(buf.bytes)

\* Buffer.from(editedBase64, "base64") of the caller
Base64Index(c) == CHOOSE i \in 0..63 : Base64Alphabet[i + 1] = c

RECURSIVE Base64Decode(_)
Base64Decode(cs) ==
    IF Len(cs) < 4 THEN <<>>
    ELSE LET a == Base64Index(cs[1])
             b == Base64Index(cs[2])
         IN  IF cs[3] = "=" THEN << a * 4 + b \div 16 >>
             ELSE LET c == Base64Index(cs[3]) IN
                  IF cs[4] = "="
                  THEN << a * 4 + b \div 16, (b % 16) * 16 + c \div 4 >>
                  ELSE << a * 4 + b \div 16, (b % 16) * 16 + c \div 4,
                          (c % 4) * 64 + Base64Index(cs[4]) >>
                       \o Base64Decode(SubSeq(cs, 5, Len(cs)))

(***************************************************************************)
(* Pressure readings, in tenths of a PSI.  An absent reading is null (the  *)
(* parameter default, which also replaces undefined).                      *)
(***************************************************************************)
NoReading == [present |-> FALSE, tenths |-> 0]

Reading(n) == [present |-> TRUE, tenths |-> n]

Abs(n) == IF n < 0 THEN -n ELSE n

\* the ternary of lines 37-41, on pressureDiff in tenths of a PSI
\* variant with >= at the upper threshold
PressureAlertMut(diff) ==
    IF diff >= 30 THEN "significant"
    ELSE IF diff > 15 THEN "moderate"
    ELSE "normal"

PressureAlert(diff) ==
    IF diff > 30 THEN "significant"
    ELSE IF diff > 15 THEN "moderate"
    ELSE "normal"

EmptyContext == [empty |-> TRUE, end1 |-> 0, end2 |-> 0, diff |-> 0, alert |-> ""]

\* lines 28-43
PressureContext(e1, e2) ==
    IF e1.present /\ e2.present
    THEN [empty |-> FALSE, end1 |-> e1.tenths, end2 |-> e2.tenths,
          diff  |-> Abs(e1.tenths - e2.tenths),
          alert |-> PressureAlert(Abs(e1.tenths - e2.tenths))]
    ELSE EmptyContext

(***************************************************************************)
(* Credentials.                                                            *)
(***************************************************************************)
NoKey == ""

\* if (!GEMINI_API_KEY): undefined and "" are both falsy
\* variant that skips the credential check
KeyConfiguredMut(key) == TRUE

KeyConfigured(key) == key # NoKey

(***************************************************************************)
(* JavaScript values of the geometry fields of a parsed detection: a       *)
(* number, or undefined (the key is absent); arithmetic on undefined       *)
(* yields NaN.                                                             *)
(***************************************************************************)
Num(n) == [t |-> "number", v |-> n]

Undefined == [t |-> "undefined", v |-> 0]

NaN == [t |-> "NaN", v |-> 0]

IsNum(a) == a.t = "number"

\* a > n for a number literal n: false for undefined and NaN
JsGt(a, n) == IsNum(a) /\ a.v > n

\* a + b on numbers; undefined or NaN operands give NaN
JsAdd(a, b) == IF IsNum(a) /\ IsNum(b) THEN Num(a.v + b.v) ELSE NaN

JsSub(a, b) == IF IsNum(a) /\ IsNum(b) THEN Num(a.v - b.v) ELSE NaN

(***************************************************************************)
(* Confidence values as they come out of JSON.parse.  MissingConf stands   *)
(* for an absent key (undefined), NumberConf for a JSON number: neither is *)
(* === to any string.                                                      *)
(***************************************************************************)
MissingConf == "<undefined>"

NumberConf == "<number 1>"

\* leak.confidence === "high" || leak.confidence === "very high"
\* variants: without the synonym tier; letting "medium" through
IsHighConfidenceOnlyHigh(c) == c = "high"

IsHighConfidenceLoose(c) == c \in {"high", "very high", "medium"}

IsHighConfidence(c) == c = "high" \/ c = "very high"

(***************************************************************************)
(* Entries of the parsed "leaks" array: an object, JSON null, or a         *)
(* primitive (whose property reads give undefined).                        *)
(***************************************************************************)
Leak(x, y, w, h, c, d) ==
    [kind |-> "object", x |-> x, y |-> y, width |-> w, height |-> h,
     confidence |-> c, description |-> d]

NullEntry ==
    [kind |-> "null", x |-> Undefined, y |-> Undefined, width |-> Undefined,
     height |-> Undefined, confidence |-> MissingConf, description |-> ""]

PrimitiveEntry ==
    [kind |-> "primitive", x |-> Undefined, y |-> Undefined, width |-> Undefined,
     height |-> Undefined, confidence |-> MissingConf, description |-> ""]

(***************************************************************************)
(* Parsed JSON documents.  kind is the type of the top-level value;        *)
(* leaksKind the type of its "leaks" member.                               *)
(***************************************************************************)
Doc(kind, leaksKind, leaks) == [kind |-> kind, leaksKind |-> leaksKind, leaks |-> leaks]

NoDoc == Doc("none", "absent", <<>>)

LeaksDoc(leaks) == Doc("object", "array", leaks)

(***************************************************************************)
(* Response text as a sequence of lexical pieces: a ```json fence, a bare  *)
(* ``` fence, white space, the text of one complete JSON value, or text    *)
(* that is not JSON (for instance a truncated document).                   *)
(***************************************************************************)
Tok(tok, doc) == [tok |-> tok, doc |-> doc]

FenceJson == Tok("fenceJson", NoDoc)

Fence == Tok("fence", NoDoc)

Ws == Tok("ws", NoDoc)

Garbage == Tok("garbage", NoDoc)

Json(doc) == Tok("json", doc)

IsFence(t) == t.tok \in {"fenceJson", "fence"}

\* .replace(/```json\n?/g, "").replace(/```\n?/g, "")
StripFences(text) == SelectSeq(text, LAMBDA t : ~IsFence(t))

\* .trim()
RECURSIVE Trim(_)
Trim(text) ==
    IF Len(text) = 0 THEN text
    ELSE IF text[1].tok = "ws" THEN Trim(Tail(text))
    ELSE IF text[Len(text)].tok = "ws" THEN Trim(SubSeq(text, 1, Len(text) - 1))
    ELSE text

\* JSON.parse succeeds exactly on the text of one JSON value
JsonParses(text) == Len(text) = 1 /\ text[1].tok = "json"

JsonParse(text) == text[1].doc

(***************************************************************************)
(* What axios.post resolves with, reduced to                               *)
(* response.data?.candidates?.[0]?.content?.parts?.[0]?.text.              *)
(***************************************************************************)
Response(textKind, text) == [textKind |-> textKind, text |-> text]

NoResponse == Response("none", <<>>)

\* if (!responseText)
IsFalsyText(resp) ==
    resp.textKind = "absent" \/ (resp.textKind = "string" /\ Len(resp.text) = 0)

(***************************************************************************)
(* Lines 157-160: leakData.leaks?.filter(...) || []                        *)
(***************************************************************************)
\* reading .leaks of null, calling .filter on a non-array, or reading
\* .confidence of a null entry raises a TypeError
\* variant that tolerates null entries (leak?.confidence)
FilterThrowsMut(doc) ==
    \/ doc.kind = "null"
    \/ /\ doc.kind = "object"
       /\ doc.leaksKind \notin {"absent", "null", "array"}

FilterThrows(doc) ==
    \/ doc.kind = "null"
    \/ /\ doc.kind = "object"
       /\ doc.leaksKind \notin {"absent", "null", "array"}
    \/ /\ doc.kind = "object"
       /\ doc.leaksKind = "array"
       /\ \E i \in 1..Len(doc.leaks) : doc.leaks[i].kind = "null"

FilterHigh(doc) ==
    IF doc.kind = "object" /\ doc.leaksKind = "array"
    THEN SelectSeq(doc.leaks, LAMBDA leak : IsHighConfidence(leak.confidence))
    ELSE <<>>

(***************************************************************************)
(* drawLeakAnnotations, lines 209-249: the SVG primitives of one leak.     *)
(***************************************************************************)
\* template-literal rendering of a non-negative integer
RECURSIVE ToDecimal(_)
ToDecimal(n) ==
    IF n < 10 THEN << <<"0","1","2","3","4","5","6","7","8","9">>[n + 1] >>
    ELSE ToDecimal(n \div 10) \o ToDecimal(n % 10)

\* const labelText = `LEAK #${index + 1}`, index the 0-based position in leaks
\* variant numbering from 0
LabelTextMut(index) == <<"L","E","A","K"," ","#">> \o ToDecimal(index)

LabelText(index) == <<"L","E","A","K"," ","#">> \o ToDecimal(index + 1)

\* const labelY = y > 30 ? y - 10 : y + height + 20
\* variant with >= at the clearance threshold
LabelYMut(y, height) ==
    IF IsNum(y) /\ y.v >= 30 THEN JsSub(y, Num(10))
    ELSE JsAdd(JsAdd(y, height), Num(20))

LabelY(y, height) ==
    IF JsGt(y, 30) THEN JsSub(y, Num(10))
    ELSE JsAdd(JsAdd(y, height), Num(20))

SvgElement(leak, index) ==
    [rect  |-> [x |-> leak.x, y |-> leak.y,
                width |-> leak.width, height |-> leak.height],
     labelBackground |->
               [x |-> JsSub(leak.x, Num(5)),
                y |-> JsSub(LabelY(leak.y, leak.height), Num(18)),
                width |-> Len(LabelText(index)) * 10 + 10,
                height |-> 22],
     text  |-> [x |-> leak.x,
                y |-> JsSub(LabelY(leak.y, leak.height), Num(3)),
                content |-> LabelText(index)]]

\* leaks.map((leak, index) => ...)
SvgElements(leaks) == [i \in 1..Len(leaks) |-> SvgElement(leaks[i], i - 1)]

NoMetadata == [width |-> 0, height |-> 0]

NoOverlay == [width |-> 0, height |-> 0, elements |-> <<>>]

(***************************************************************************)
(* Inputs of the model.                                                    *)
(***************************************************************************)
\* a missing buffer, an empty one, and buffers of 1, 2, 3 and 4 bytes
PngLike == Buffer(<<137, 80, 78, 71>>)

JpegLike == Buffer(<<255, 216, 255>>)

ImageInputs == {NoBuffer, Buffer(<<>>), Buffer(<<77>>), JpegLike, PngLike}

KeyInputs == {NoKey, "key"}

\* what image.composite(...).jpeg({quality: 95}).toBuffer() can resolve with
JpegOutputs == {<<255, 216, 255>>, <<255, 216, 255, 224, 0>>}

MetadataOutputs == {[width |-> 20, height |-> 20], [width |-> 640, height |-> 480]}

\* entries the service can put in "leaks"
ConfidenceValues ==
    {"high", "very high", "medium", "low", "High", " high", MissingConf, NumberConf}

ConfidenceEntries ==
    {Leak(Num(10), Num(10), Num(50), Num(40), c, "stain") : c \in ConfidenceValues}

GeometryEntries ==
    { Leak(Num(150), Num(200), Num(80), Num(60), "high", ""),
      Leak(Num(10), Num(30), Num(50), Num(40), "high", ""),
      Leak(Num(10), Num(31), Num(50), Num(40), "very high", ""),
      Leak(Num(10), Num(0), Num(0), Num(40), "high", ""),
      Leak(Num(10), Num(40), Num(50), Num(0 - 5), "high", ""),
      Leak(Undefined, Num(10), Num(50), Num(40), "high", ""),
      Leak(Num(10), Undefined, Num(50), Undefined, "high", "") }

LeakEntries == ConfidenceEntries \cup GeometryEntries \cup {NullEntry, PrimitiveEntry}

SeqsUpTo(S, n) == UNION { [1..k -> S] : k \in 0..n }

\* JSON documents that are not an object with a "leaks" array
MalformedDocs ==
    { Doc("null", "absent", <<>>), Doc("number", "absent", <<>>),
      Doc("string", "absent", <<>>), Doc("array", "absent", <<>>),
      Doc("object", "absent", <<>>), Doc("object", "null", <<>>),
      Doc("object", "string", <<>>), Doc("object", "number", <<>>),
      Doc("object", "object", <<>>) }

\* the wrappers a document is tried in
Wrapped(doc) ==
    { <<Json(doc)>>,
      <<FenceJson, Json(doc), Fence>>,
      <<Ws, Fence, Json(doc), Ws, Fence, Ws>> }

FewLeaksDocs ==
    { LeaksDoc(<<>>),
      LeaksDoc(<<Leak(Num(10), Num(10), Num(50), Num(40), "medium", "")>>),
      LeaksDoc(<<Leak(Num(10), Num(10), Num(50), Num(40), "high", "stain")>>),
      LeaksDoc(<<NullEntry>>) }

MalformedTexts ==
    { <<Ws>>, <<Garbage>>, <<FenceJson, Garbage, Fence>>, <<FenceJson, Fence>>,
      <<Json(LeaksDoc(<<>>)), Garbage>> }

Responses(entries) ==
    { Response("absent", <<>>), Response("number", <<>>), Response("string", <<>>) }
    \cup { Response("string", t) : t \in MalformedTexts }
    \cup { Response("string", t) : t \in UNION { Wrapped(d) : d \in MalformedDocs \cup FewLeaksDocs } }
    \cup { Response("string", <<Json(LeaksDoc(ls))>>) : ls \in SeqsUpTo(entries, MaxLeaks) }

AllResponses == Responses(LeakEntries)

(***************************************************************************)
(* Lines 132-177: what the code between the awaited axios.post and the     *)
(* call of drawLeakAnnotations does with a resolved response.  exit names  *)
(* the return statement reached ("draw": none, the renderer is called).    *)
(***************************************************************************)
Outcome(ex, doc, high) == [exit |-> ex, leakData |-> doc, high |-> high]

Interpret(resp) ==
    IF IsFalsyText(resp) THEN Outcome("L137", NoDoc, <<>>)
    ELSE IF resp.textKind # "string"
    THEN Outcome("L191", NoDoc, <<>>)       \* responseText.replace is not a function
    ELSE LET cleaned == Trim(StripFences(resp.text)) IN
         IF ~JsonParses(cleaned) THEN Outcome("L154", NoDoc, <<>>)
         ELSE LET doc == JsonParse(cleaned) IN
              IF FilterThrows(doc) THEN Outcome("L191", doc, <<>>)
              ELSE IF Len(FilterHigh(doc)) = 0
              THEN Outcome("L176", doc, FilterHigh(doc))
              ELSE Outcome("draw", doc, FilterHigh(doc))

(***************************************************************************)
(* Initial states: the arguments and the environment of one invocation.    *)
(***************************************************************************)
InitLocals ==
    /\ pc = "start"
    /\ exit = ""
    /\ base64Image = <<>>
    /\ pressureContext = EmptyContext
    /\ calls = 0
    /\ response = NoResponse
    /\ leakData = NoDoc
    /\ highConfidenceLeaks = <<>>
    /\ drawCalls = 0
    /\ drawArg = <<>>
    /\ metadata = NoMetadata
    /\ svgOverlay = NoOverlay
    /\ drawExit = ""
    /\ annotatedImage = NoBuffer
    /\ result = <<>>

FewReadings == {NoReading, Reading(165)}

Init ==
    /\ imageBuffer \in ImageInputs
    /\ GEMINI_API_KEY \in KeyInputs
    /\ end1Pressure \in FewReadings
    /\ end2Pressure \in FewReadings
    /\ InitLocals

(***************************************************************************)
(* analyzeWithGemini                                                       *)
(***************************************************************************)
\* lines 12-14
ThrowNoImage ==
    /\ pc = "start"
    /\ IsMissingOrEmpty(imageBuffer)
    /\ pc' = "thrown"
    /\ exit' = "L13"
    /\ UNCHANGED <<imageBuffer, end1Pressure, end2Pressure, GEMINI_API_KEY,
                   base64Image, pressureContext, calls, response, leakData,
                   highConfidenceLeaks, drawCalls, drawArg, metadata,
                   svgOverlay, drawExit, annotatedImage, result>>

\* lines 16-22
ReturnNoKey ==
    /\ pc = "start"
    /\ ~IsMissingOrEmpty(imageBuffer)
    /\ ~KeyConfigured(GEMINI_API_KEY)
    /\ result' = ToBase64(imageBuffer)
    /\ pc' = "done"
    /\ exit' = "L21"
    /\ UNCHANGED <<imageBuffer, end1Pressure, end2Pressure, GEMINI_API_KEY,
                   base64Image, pressureContext, calls, response, leakData,
                   highConfidenceLeaks, drawCalls, drawArg, metadata,
                   svgOverlay, drawExit, annotatedImage>>

\* lines 24-130: compose the request and issue axios.post
SendRequest ==
    /\ pc = "start"
    /\ ~IsMissingOrEmpty(imageBuffer)
    /\ KeyConfigured(GEMINI_API_KEY)
    /\ base64Image' = ToBase64(imageBuffer)
    /\ pressureContext' = PressureContext(end1Pressure, end2Pressure)
    /\ calls' = calls + 1
    /\ pc' = "awaitPost"
    /\ UNCHANGED <<imageBuffer, end1Pressure, end2Pressure, GEMINI_API_KEY,
                   exit, response, leakData, highConfidenceLeaks, drawCalls,
                   drawArg, metadata, svgOverlay, drawExit, annotatedImage,
                   result>>

\* lines 189-192: axios.post rejects (network failure, timeout after 90 s,
\* non-2xx status)
\* variant that retries a rejected request once
AxiosPostRejectsMut ==
    /\ pc = "awaitPost"
    /\ response' = Response("rejected", <<>>)
    /\ calls' = calls + 1
    /\ pc' = IF calls < 2 THEN "awaitPost" ELSE "done"
    /\ result' = IF calls < 2 THEN result ELSE ToBase64(imageBuffer)
    /\ exit' = IF calls < 2 THEN exit ELSE "L191"
    /\ UNCHANGED <<imageBuffer, end1Pressure, end2Pressure, GEMINI_API_KEY,
                   base64Image, pressureContext, leakData,
                   highConfidenceLeaks, drawCalls, drawArg, metadata,
                   svgOverlay, drawExit, annotatedImage>>

AxiosPostRejects ==
    /\ pc = "awaitPost"
    /\ response' = Response("rejected", <<>>)
    /\ result' = ToBase64(imageBuffer)
    /\ pc' = "done"
    /\ exit' = "L191"
    /\ UNCHANGED <<imageBuffer, end1Pressure, end2Pressure, GEMINI_API_KEY,
                   base64Image, pressureContext, calls, leakData,
                   highConfidenceLeaks, drawCalls, drawArg, metadata,
                   svgOverlay, drawExit, annotatedImage>>

\* lines 132-186: axios.post resolves; interpret, filter, and either return
\* or call drawLeakAnnotations, which runs to its first await (line 204)
AxiosPostResolves(resp) ==
    /\ pc = "awaitPost"
    /\ response' = resp
    /\ LET o == Interpret(resp) IN
       /\ leakData' = o.leakData
       /\ highConfidenceLeaks' = o.high
       /\ IF o.exit = "draw"
          THEN /\ drawCalls' = drawCalls + 1
               /\ drawArg' = o.high
               /\ pc' = "awaitMetadata"
               /\ UNCHANGED <<exit, result>>
          ELSE /\ pc' = "done"
               /\ exit' = o.exit
               /\ result' = IF o.exit = "L191" THEN ToBase64(imageBuffer)
                                               ELSE base64Image
               /\ UNCHANGED <<drawCalls, drawArg>>
    /\ UNCHANGED <<imageBuffer, end1Pressure, end2Pressure, GEMINI_API_KEY,
                   base64Image, pressureContext, calls, metadata, svgOverlay,
                   drawExit, annotatedImage>>

(***************************************************************************)
(* drawLeakAnnotations, and the return of analyzeWithGemini at line 187    *)
(***************************************************************************)
\* lines 204-265: metadata is read, the overlay is built, composite starts
MetadataResolves(meta) ==
    /\ pc = "awaitMetadata"
    /\ metadata' = meta
    /\ svgOverlay' = [width |-> meta.width, height |-> meta.height,
                      elements |-> SvgElements(drawArg)]
    /\ pc' = "awaitComposite"
    /\ UNCHANGED <<imageBuffer, end1Pressure, end2Pressure, GEMINI_API_KEY,
                   exit, base64Image, pressureContext, calls, response,
                   leakData, highConfidenceLeaks, drawCalls, drawArg,
                   drawExit, annotatedImage, result>>

\* lines 270-273, then 187: sharp() or image.metadata() fails
MetadataRejects ==
    /\ pc = "awaitMetadata"
    /\ drawExit' = "L272"
    /\ annotatedImage' = imageBuffer
    /\ result' = ToBase64(imageBuffer)
    /\ pc' = "done"
    /\ exit' = "L187"
    /\ UNCHANGED <<imageBuffer, end1Pressure, end2Pressure, GEMINI_API_KEY,
                   base64Image, pressureContext, calls, response, leakData,
                   highConfidenceLeaks, drawCalls, drawArg, metadata,
                   svgOverlay>>

\* lines 267-268, then 187: the composite is encoded
CompositeResolves(out) ==
    /\ pc = "awaitComposite"
    /\ drawExit' = "L268"
    /\ annotatedImage' = Buffer(out)
    /\ result' = ToBase64(Buffer(out))
    /\ pc' = "done"
    /\ exit' = "L187"
    /\ UNCHANGED <<imageBuffer, end1Pressure, end2Pressure, GEMINI_API_KEY,
                   base64Image, pressureContext, calls, response, leakData,
                   highConfidenceLeaks, drawCalls, drawArg, metadata,
                   svgOverlay>>

\* lines 270-273, then 187: compositing or encoding fails
CompositeRejects ==
    /\ pc = "awaitComposite"
    /\ drawExit' = "L272"
    /\ annotatedImage' = imageBuffer
    /\ result' = ToBase64(imageBuffer)
    /\ pc' = "done"
    /\ exit' = "L187"
    /\ UNCHANGED <<imageBuffer, end1Pressure, end2Pressure, GEMINI_API_KEY,
                   base64Image, pressureContext, calls, response, leakData,
                   highConfidenceLeaks, drawCalls, drawArg, metadata,
                   svgOverlay>>

Next ==
    \/ ThrowNoImage
    \/ ReturnNoKey
    \/ SendRequest
    \/ AxiosPostRejects
    \/ pc = "awaitPost" /\ \E resp \in AllResponses : AxiosPostResolves(resp)
    \/ \E meta \in MetadataOutputs : MetadataResolves(meta)
    \/ MetadataRejects
    \/ \E out \in JpegOutputs : CompositeResolves(out)
    \/ CompositeRejects

Spec == Init /\ [][Next]_vars

(***************************************************************************)
(* Smaller instances: the same actions over fewer responses, with wide     *)
(* pressure readings (PressureSpec) or with fairness (LiveSpec).           *)
(***************************************************************************)
FewEntries ==
    { Leak(Num(10), Num(10), Num(50), Num(40), "medium", ""),
      Leak(Num(10), Num(10), Num(50), Num(40), "high", "stain"),
      NullEntry }

FewResponses == Responses(FewEntries)

NextFew ==
    \/ ThrowNoImage
    \/ ReturnNoKey
    \/ SendRequest
    \/ AxiosPostRejects
    \/ pc = "awaitPost" /\ \E resp \in FewResponses : AxiosPostResolves(resp)
    \/ \E meta \in MetadataOutputs : MetadataResolves(meta)
    \/ MetadataRejects
    \/ \E out \in JpegOutputs : CompositeResolves(out)
    \/ CompositeRejects

\* readings in tenths of a PSI
ReadingInputs ==
    {NoReading} \cup {Reading(n) : n \in {0, 15, 30, 31, 45, 120, 128, 165, 200}}

InitPressure ==
    /\ imageBuffer \in {Buffer(<<>>), PngLike}
    /\ GEMINI_API_KEY \in KeyInputs
    /\ end1Pressure \in ReadingInputs
    /\ end2Pressure \in ReadingInputs
    /\ InitLocals

PressureSpec == InitPressure /\ [][NextFew]_vars

\* every await settles: axios.post is bounded by its 90 s timeout, and the
\* sharp promises resolve or reject
LiveSpec == Init /\ [][NextFew]_vars /\ WF_vars(NextFew)

(***************************************************************************)
(* Vocabulary of the properties.                                           *)
(***************************************************************************)
NonEmptyImage == ~imageBuffer.isNull /\ Len(imageBuffer.bytes) > 0

\* the portable text form of the unmodified source image
IsOriginal(text) ==
    /\ text = ToBase64(imageBuffer)
    /\ Base64Decode(text) = imageBuffer.bytes
    /\ Len(text) = 4 * ((Len(imageBuffer.bytes) + 2) \div 3)

TopTier(c) == c \in {"high", "very high"}

\* the awaited call has resolved with a response
Resolved == response.textKind \in {"absent", "number", "string"}

\* the pieces of a text that are neither fences nor white space
Content(text) == SelectSeq(text, LAMBDA t : t.tok \in {"json", "garbage"})

ValidJson(resp) ==
    /\ resp.textKind = "string"
    /\ Len(Content(resp.text)) = 1
    /\ Content(resp.text)[1].tok = "json"

ParsedDoc(resp) == Content(resp.text)[1].doc

\* the response carries an object whose "leaks" is an array without null entries
HasLeaksArray(resp) ==
    /\ ValidJson(resp)
    /\ ParsedDoc(resp).kind = "object"
    /\ ParsedDoc(resp).leaksKind = "array"
    /\ \A i \in 1..Len(ParsedDoc(resp).leaks) : ParsedDoc(resp).leaks[i].kind # "null"

\* text absent, empty, not valid JSON after fence stripping, or JSON that does
\* not match the contract
Malformed(resp) ==
    \/ resp.textKind = "absent"
    \/ resp.textKind = "string" /\ resp.text = <<>>
    \/ resp.textKind = "string" /\ ~ValidJson(resp)
    \/ ValidJson(resp) /\ ~HasLeaksArray(resp)

TopTierIndices(leaks) == {i \in 1..Len(leaks) : TopTier(leaks[i].confidence)}

\* the index in leaks of its k-th top-tier entry
KthTopTier(leaks, k) ==
    CHOOSE i \in TopTierIndices(leaks) :
        Cardinality({j \in TopTierIndices(leaks) : j <= i}) = k

(***************************************************************************)
(* Properties                                                              *)
(***************************************************************************)

\* C1: with a non-empty image and no GEMINI_API_KEY configured, no request
\* is ever issued, and the invocation returns exactly the base64 encoding of
\* the input image, whatever the pressure arguments are.
C1_NoKeyPassThrough ==
    (NonEmptyImage /\ GEMINI_API_KEY = NoKey) =>
        /\ calls = 0
        /\ pc \in {"start", "done"}
        /\ pc = "done" => IsOriginal(result)

C1_Witness ==
    /\ pc = "done"
    /\ GEMINI_API_KEY = NoKey
    /\ imageBuffer = PngLike
    /\ end1Pressure.present /\ end2Pressure.present
    /\ result = <<"i", "V", "B", "O", "R", "w", "=", "=">>

\* C2: the invocation raises if and only if the image buffer is missing or
\* empty, with or without credentials; after any other failure (no
\* credentials, rejected request, text that is absent, unparsable or off the
\* contract, metadata or compositing failure) it returns the base64 encoding
\* of the original image.
C2_OnlyInputErrorSurfaces ==
    /\ pc = "thrown" => ~NonEmptyImage
    /\ ~NonEmptyImage => (pc \in {"start", "thrown"} /\ calls = 0 /\ result = <<>>)
    /\ (/\ pc = "done"
        /\ \/ GEMINI_API_KEY = NoKey
           \/ response.textKind = "rejected"
           \/ response.textKind = "number"
           \/ Resolved /\ Malformed(response)
           \/ drawExit = "L272")
       => IsOriginal(result)

C2_Witness ==
    /\ pc = "done"
    /\ drawCalls = 1
    /\ drawExit = "L272"
    /\ metadata # NoMetadata
    /\ IsOriginal(result)

\* C3: a response whose text is absent, empty, not valid JSON once the
\* fences are stripped, or valid JSON off the contract (null, a non-object,
\* "leaks" not an array, a null entry, no "leaks" key) ends the invocation
\* normally with the base64 encoding of the original image, without calling
\* the renderer and without a second request.
C3_MalformedPassThrough ==
    (Resolved /\ Malformed(response)) =>
        /\ pc = "done"
        /\ IsOriginal(result)
        /\ drawCalls = 0
        /\ calls = 1

C3_Witness ==
    /\ pc = "done"
    /\ ValidJson(response)
    /\ ParsedDoc(response).leaksKind = "array"
    /\ Len(ParsedDoc(response).leaks) = 2
    /\ TopTier(ParsedDoc(response).leaks[1].confidence)
    /\ ParsedDoc(response).leaks[2].kind = "null"
    /\ IsOriginal(result)

\* the confidence filter has run on a parsed "leaks" array
FilterRan ==
    /\ Resolved
    /\ HasLeaksArray(response)

\* C4: the filter output is exactly the subsequence of the parsed "leaks"
\* array whose confidence is exactly "high" or "very high": the retained
\* entries are unaltered and in their original relative order, every other
\* entry is dropped.
C4_FilterExactSubsequence ==
    FilterRan =>
        LET leaks == ParsedDoc(response).leaks
            kept  == highConfidenceLeaks
        IN  /\ leakData = ParsedDoc(response)
            /\ \E f \in [1..Len(kept) -> 1..Len(leaks)] :
                /\ \A k \in 1..Len(kept) : kept[k] = leaks[f[k]]
                /\ \A j, k \in 1..Len(kept) : j < k => f[j] < f[k]
                /\ {f[k] : k \in 1..Len(kept)} = TopTierIndices(leaks)

C4_Witness ==
    /\ FilterRan
    /\ Len(leakData.leaks) = 2
    /\ leakData.leaks[1].confidence = "High"
    /\ leakData.leaks[2].confidence = "very high"
    /\ highConfidenceLeaks = <<leakData.leaks[2]>>

\* C5: when every entry of the parsed detection sequence (the empty one
\* included) has a confidence below the top tier, the filtered sequence is
\* empty, drawLeakAnnotations is not called, and the output is the base64
\* encoding of the unmodified source image.
C5_NoTopTierPassThrough ==
    (FilterRan /\ TopTierIndices(ParsedDoc(response).leaks) = {}) =>
        /\ highConfidenceLeaks = <<>>
        /\ drawCalls = 0
        /\ pc = "done"
        /\ IsOriginal(result)

C5_Witness ==
    /\ pc = "done"
    /\ FilterRan
    /\ Len(leakData.leaks) = 2
    /\ leakData.leaks[1].confidence = "medium"
    /\ leakData.leaks[2].confidence = "low"
    /\ drawCalls = 0
    /\ IsOriginal(result)

\* the overlay holds one label region per retained detection, the k-th one
\* reading "LEAK #k" and drawn for the k-th top-tier entry of the response
Labelled ==
    LET leaks == ParsedDoc(response).leaks
        n     == Cardinality(TopTierIndices(leaks))
    IN  /\ Len(svgOverlay.elements) = n
        /\ \A k \in 1..n :
            LET e    == svgOverlay.elements[k]
                leak == leaks[KthTopTier(leaks, k)]
            IN  /\ e.text.content = <<"L", "E", "A", "K", " ", "#">> \o ToDecimal(k)
                /\ e.labelBackground.width = 10 * (6 + Len(ToDecimal(k))) + 10
                /\ e.rect = [x |-> leak.x, y |-> leak.y,
                             width |-> leak.width, height |-> leak.height]
                /\ e.text.x = leak.x

\* C6 as stated: whenever the response has at least one top-tier entry the
\* output differs from the input and carries the labels LEAK #1 .. LEAK #N.
C6_AlwaysAnnotated ==
    (pc = "done" /\ FilterRan /\ TopTierIndices(ParsedDoc(response).leaks) # {}) =>
        /\ result # ToBase64(imageBuffer)
        /\ Labelled

\* C6 (amended): when the response has at least one top-tier entry the
\* renderer is called once with the retained detections; if metadata and
\* compositing succeed the output is the base64 encoding of the re-encoded
\* composite, whose overlay has exactly N label regions "LEAK #1" .. "LEAK #N",
\* the k-th for the k-th retained detection in response order; if either
\* fails the output is the base64 encoding of the unmodified input.
C6_AnnotatedWhenRendered ==
    (FilterRan /\ TopTierIndices(ParsedDoc(response).leaks) # {}) =>
        /\ drawCalls = 1
        /\ pc \in {"awaitMetadata", "awaitComposite", "done"}
        /\ pc = "awaitComposite" => Labelled
        /\ pc = "done" => drawExit \in {"L268", "L272"}
        /\ (pc = "done" /\ drawExit = "L268") =>
              /\ Labelled
              /\ annotatedImage.bytes \in JpegOutputs
              /\ result = ToBase64(annotatedImage)
              /\ Base64Decode(result) = annotatedImage.bytes
        /\ (pc = "done" /\ drawExit = "L272") => IsOriginal(result)

C6_Witness ==
    /\ pc = "done"
    /\ drawExit = "L268"
    /\ FilterRan
    /\ Len(leakData.leaks) = 2
    /\ ~TopTier(leakData.leaks[1].confidence)
    /\ TopTier(leakData.leaks[2].confidence)
    /\ Len(svgOverlay.elements) = 1
    /\ svgOverlay.elements[1].text.content = <<"L", "E", "A", "K", " ", "#", "1">>
    /\ result # ToBase64(imageBuffer)

\* C7: the pressure context is empty when a reading is absent; otherwise,
\* with diff = |end1 - end2| (tenths of a PSI), the tier is "significant"
\* exactly when diff > 3.0, "moderate" exactly when 1.5 < diff <= 3.0 and
\* "normal" exactly when diff <= 1.5; 0 is a present reading; the tier is the
\* same with the readings swapped; (20.0, 16.5) is significant and
\* (12.0, 12.8) is normal.
C7_PressureTiers ==
    calls > 0 =>
        IF ~end1Pressure.present \/ ~end2Pressure.present
        THEN pressureContext = EmptyContext
        ELSE LET a == end1Pressure.tenths
                 b == end2Pressure.tenths
                 d == IF a >= b THEN a - b ELSE b - a
             IN  /\ ~pressureContext.empty
                 /\ pressureContext.diff = d
                 /\ pressureContext.alert \in {"significant", "moderate", "normal"}
                 /\ pressureContext.alert = "significant" <=> d > 30
                 /\ pressureContext.alert = "moderate" <=> (15 < d /\ d <= 30)
                 /\ pressureContext.alert = "normal" <=> d <= 15
                 /\ pressureContext.alert
                      = PressureContext(end2Pressure, end1Pressure).alert
                 /\ (a = 200 /\ b = 165) => pressureContext.alert = "significant"
                 /\ (a = 120 /\ b = 128) => pressureContext.alert = "normal"

C7_Witness ==
    /\ calls > 0
    /\ end1Pressure = Reading(0)
    /\ end2Pressure = Reading(30)
    /\ pressureContext.alert = "moderate"

\* C8 as stated: every detection handed to the renderer has numeric x, y,
\* width, height with width > 0 and height > 0 (invalid ones are dropped
\* before rendering), and parsing, filtering and rendering leave the parsed
\* detections as they were.
C8_ValidatedBeforeRender ==
    /\ \A i \in 1..Len(drawArg) :
          /\ IsNum(drawArg[i].x) /\ IsNum(drawArg[i].y)
          /\ IsNum(drawArg[i].width) /\ IsNum(drawArg[i].height)
          /\ drawArg[i].width.v > 0
          /\ drawArg[i].height.v > 0
    /\ FilterRan => leakData = ParsedDoc(response)

\* C9: each rendered detection's label is anchored above the rectangle
\* exactly when y > 30 (baseline anchor y - 10: background from y - 28 to
\* y - 6, text at y - 13) and below it otherwise (anchor y + height + 20:
\* background from y + height + 2, text at y + height + 17); y = 30 is
\* below; nothing but that detection's y and height enters the choice.  With
\* y or height undefined the lower branch is taken and the anchor is NaN.
C9_LabelPlacement ==
    \A k \in 1..Len(svgOverlay.elements) :
        LET e == svgOverlay.elements[k]
            y == drawArg[k].y
            h == drawArg[k].height
        IN  IF IsNum(y) /\ y.v > 30
            THEN /\ e.labelBackground.y = Num(y.v - 28)
                 /\ e.labelBackground.y.v + e.labelBackground.height <= y.v
                 /\ e.text.y = Num(y.v - 13)
            ELSE IF IsNum(y) /\ IsNum(h)
            THEN /\ e.labelBackground.y = Num(y.v + h.v + 2)
                 /\ e.labelBackground.y.v >= y.v + h.v
                 /\ e.text.y = Num(y.v + h.v + 17)
            ELSE /\ e.labelBackground.y = NaN
                 /\ e.text.y = NaN

C9_Witness ==
    /\ pc = "awaitComposite"
    /\ Len(svgOverlay.elements) = 2
    /\ drawArg[1].y = Num(30)
    /\ svgOverlay.elements[1].labelBackground.y = Num(72)
    /\ drawArg[2].y = Num(31)
    /\ svgOverlay.elements[2].labelBackground.y = Num(3)
    /\ svgOverlay.width = 20

\* C10: with a non-empty image and credentials, exactly one request is
\* issued; interpretation, filtering and rendering do not start before it
\* has settled; a rejected (failed or timed-out) request is not retried and
\* yields the unmodified image; and the invocation eventually completes with
\* a result.
C10_OneCallThenStages ==
    /\ [](calls <= 1)
    /\ []((pc \in {"awaitPost", "awaitMetadata", "awaitComposite", "done"}
           /\ GEMINI_API_KEY # NoKey) => calls = 1)
    /\ []((pc \in {"start", "awaitPost"}) =>
            /\ response = NoResponse
            /\ leakData = NoDoc
            /\ highConfidenceLeaks = <<>>
            /\ drawCalls = 0
            /\ svgOverlay = NoOverlay)
    /\ [][(pc = "awaitPost" /\ response'.textKind = "rejected") =>
            /\ pc' = "done"
            /\ calls' = calls
            /\ result' = ToBase64(imageBuffer)]_vars
    /\ [](response.textKind = "rejected" => (pc = "done" /\ IsOriginal(result)))
    /\ (NonEmptyImage /\ GEMINI_API_KEY # NoKey)
          ~> (pc = "done" /\ calls = 1 /\ Len(result) > 0)

C10_Witness ==
    /\ pc = "done"
    /\ calls = 1
    /\ response.textKind = "rejected"
    /\ IsOriginal(result)

=============================================================================
